---------------------------- MODULE Spec2Model ----------------------------
(***************************************************************************)
(* The incremental text-to-speech player of smart-teacher-notepad          *)
(* (src/components/TtsPlayer.tsx), mounted by src/App.tsx.                 *)
(*                                                                         *)
(* A text is a sequence of one-character strings.  The component is        *)
(* modelled as React runs it: an event handler queues state updates, the   *)
(* component renders once with the batch applied, and the effects whose    *)
(* dependencies changed run in source order; updates queued by the effects *)
(* cause the next render, until none is left.  Awaited work (the synthesis *)
(* request, the end of a source's audio) resumes as an event of its own,   *)
(* with the values its closure captured at the render that created it.     *)
(***************************************************************************)
EXTENDS Integers, Sequences, FiniteSets, TLC

VARIABLES
    mounted,          \* App: ttsState.isPlaying, i.e. a TtsPlayer instance exists
    text,             \* App: ttsState.textToRead, the player's text prop
    speed,            \* App: ttsState.speed
    chunks,           \* useState: AudioChunk[]
    currentChunkIdx,  \* useState
    isReadyToPlay,    \* useState
    playbackState,    \* useState: "playing" | "paused" | "stopped"
    loadingError,     \* useState
    ctxState,         \* audioContextRef.current.state, "none" while the ref is null
    sourceRef,        \* sourceRef.current: the source node it holds, or NoSource
    animationId,      \* animationIdRef.current is set (a frame callback is scheduled)
    fetches,          \* loadNextBuffer calls suspended at await generateSpeech
    stale,            \* sources stopped by cleanupAudio whose ended event may still be delivered
    orphans,          \* started sources no ref holds any more
    lastStarted,      \* index of the chunk the last started source plays, -1 before the first
    textChanges,      \* text changes this instance has seen
    sourceSerial,     \* serial number of the source created last, modulo 2
    requests,         \* generateSpeech calls made for each chunk of the sequence
    openContexts      \* AudioContexts created and not closed

vars == <<mounted, text, speed, chunks, currentChunkIdx, isReadyToPlay,
          playbackState, loadingError, ctxState, sourceRef, animationId,
          fetches, stale, orphans, lastStarted, textChanges, sourceSerial,
          requests, openContexts>>

-----------------------------------------------------------------------------
(* Bounds of the model *)

\* blocks an input text of the Segmenter is built from
MaxBlocks == 4
\* how far from positions 180 and 360 the scenario's two terminators may lie
Near == 3
\* text changes one mounted player sees
MaxTextChanges == 2

-----------------------------------------------------------------------------
(* Text Segmenter: the text-splitting effect, TtsPlayer.tsx 65-87 *)

CHUNK_SIZE_LIMIT == 200

\* the characters [.!?\n] of the regular expression
IsTerminator(c) == c \in {".", "!", "?", "\n"}

\* the characters String.prototype.trim removes
IsSpace(c) == c \in {" ", "\n", "\t"}

Min(S) == CHOOSE x \in S : \A y \in S : x <= y

\* F applied to the value of w, which is computed once: one statement
\* after another
Then(w, F(_)) == CHOOSE r \in {F(v) : v \in {w}} : TRUE

\* first index >= i that holds no terminator (Len + 1 when there is none)
RECURSIVE SkipTerminators(_, _)
SkipTerminators(t, i) ==
    IF i <= Len(t) /\ IsTerminator(t[i]) THEN SkipTerminators(t, i + 1) ELSE i

\* first index >= i that holds a terminator (0 when there is none)
FirstTerminator(t, i) ==
    LET S == {j \in i..Len(t) : IsTerminator(t[j])}
    IN  IF S = {} THEN 0 ELSE Min(S)

\* text.match(/[^.!?\n]+[.!?\n]+/g) from index i on: every maximal run of
\* non-terminators that is followed by a terminator, with the whole run of
\* terminators after it.  A run of non-terminators that reaches the end of
\* the text matches nothing, and terminators before a match are skipped.
RECURSIVE MatchFrom(_, _)
MatchFrom(t, i) ==
    Then(SkipTerminators(t, i), LAMBDA start :
    Then(IF start > Len(t) THEN 0 ELSE FirstTerminator(t, start), LAMBDA term :
         IF term = 0 THEN <<>>
         ELSE Then(SkipTerminators(t, term), LAMBDA next :
                   <<SubSeq(t, start, next - 1)>> \o MatchFrom(t, next))))

\* text.match(regex) || [text]
Sentences(t) ==
    Then(MatchFrom(t, 1), LAMBDA m : IF m = <<>> THEN <<t>> ELSE m)

RECURSIVE TrimStart(_, _)
TrimStart(t, i) ==
    IF i <= Len(t) /\ IsSpace(t[i]) THEN TrimStart(t, i + 1) ELSE i

RECURSIVE TrimEnd(_, _)
TrimEnd(t, j) ==
    IF j >= 1 /\ IsSpace(t[j]) THEN TrimEnd(t, j - 1) ELSE j

\* String.prototype.trim
Trim(t) == SubSeq(t, TrimStart(t, 1), TrimEnd(t, Len(t)))

NoBuffer == <<>>

\* { text, buffer: null, status: 'pending' }
NewChunk(t) == [text |-> Trim(t), buffer |-> NoBuffer, status |-> "pending"]

\* a test that leaves the sentence out of the length
FitsLoose(currentText, s) == Len(currentText) < CHUNK_SIZE_LIMIT

\* (currentText + s).length < CHUNK_SIZE_LIMIT
Fits(currentText, s) == Len(currentText \o s) < CHUNK_SIZE_LIMIT

\* sentences.forEach(...), from sentence k on; yields <<newChunks, currentText>>
RECURSIVE Group(_, _, _, _)
Group(sentences, k, newChunks, currentText) ==
    IF k > Len(sentences) THEN <<newChunks, currentText>>
    ELSE Then(<<newChunks, currentText>>, LAMBDA v :
         IF Fits(v[2], sentences[k])
         THEN Group(sentences, k + 1, v[1], v[2] \o sentences[k])
         ELSE Group(sentences, k + 1, Append(v[1], NewChunk(v[2])), sentences[k]))

\* the chunk sequence the effect hands to setChunks
Segment(t) ==
    Then(Sentences(t), LAMBDA sentences :
    Then(Group(sentences, 1, <<>>, <<>>), LAMBDA g :
         IF Trim(g[2]) # <<>> THEN Append(g[1], NewChunk(g[2])) ELSE g[1]))

-----------------------------------------------------------------------------
(* The component between two renders.                                      *)
(* A record w holds the values of the last render (chunks, idx, ready,     *)
(* pstate, err and the props text, speed as that render saw them: what a   *)
(* closure created by it captures), the updates queued since (nchunks,     *)
(* nidx, nready, npstate, nerr; touched: setChunks was called, so the      *)
(* array is a new one), the refs, and the asynchronous work outstanding.   *)

\* slider positions of the speed control, in tenths; App starts at 1.0
Speeds == {10, 20}

InitialSpeed == 10

NoSource == [id |-> -1, idx |-> -1, len |-> 0, nextBuf |-> FALSE, rate |-> 0,
             audio |-> NoBuffer]

W == [chunks |-> chunks, idx |-> currentChunkIdx, ready |-> isReadyToPlay,
      pstate |-> playbackState, err |-> loadingError,
      ptext |-> text, pspeed |-> speed,
      nchunks |-> chunks, nidx |-> currentChunkIdx, nready |-> isReadyToPlay,
      npstate |-> playbackState, nerr |-> loadingError, touched |-> FALSE,
      text |-> text, speed |-> speed,
      ctx |-> ctxState, src |-> sourceRef, anim |-> animationId,
      fetches |-> fetches, stale |-> stale, orphans |-> orphans,
      last |-> lastStarted, serial |-> sourceSerial, reqs |-> requests,
      ctxs |-> openContexts, session |-> textChanges]

\* prev.map((c, i) => i === target ? { ...c, status } : c), target counted from 0
SetStatus(cs, target, status) ==
    [i \in 1..Len(cs) |-> IF i = target + 1 THEN [cs[i] EXCEPT !.status = status]
                          ELSE cs[i]]

\* prev.map((c, i) => i === target ? { ...c, buffer, status: 'ready' } : c)
SetReady(cs, target, buffer) ==
    [i \in 1..Len(cs) |-> IF i = target + 1
                          THEN [cs[i] EXCEPT !.buffer = buffer, !.status = "ready"]
                          ELSE cs[i]]

\* a cleanup that closes the context only while it is running
CleanupAudioRunningOnly(w) ==
    [w EXCEPT !.src = NoSource,
              !.stale = IF w.src # NoSource THEN @ \cup {w.src} ELSE @,
              !.orphans = {},
              !.ctx = IF w.ctx = "running" THEN "closed" ELSE @,
              !.ctxs = IF w.ctx = "running" THEN @ - 1 ELSE @,
              !.anim = FALSE]

\* cleanupAudio: stop and drop the source, close the context, cancel the frame.
\* The stopped source keeps its onended handler.
CleanupAudio(w) ==
    [w EXCEPT !.src = NoSource,
              !.stale = IF w.src # NoSource THEN @ \cup {w.src} ELSE @,
              !.orphans = {},
              !.ctx = IF w.ctx \in {"running", "suspended"} THEN "closed" ELSE @,
              !.ctxs = IF w.ctx \in {"running", "suspended"} THEN @ - 1 ELSE @,
              !.anim = FALSE]

\* the text effect's body (lines 66-103)
TextEffect(w) ==
    IF w.text = <<>> THEN w
    ELSE [w EXCEPT !.nchunks = Segment(w.text), !.touched = TRUE,
                   !.nidx = 0, !.npstate = "playing", !.nerr = FALSE,
                   !.ctx = "running", !.ctxs = @ + 1,
                   !.reqs = [i \in 1..Len(Segment(w.text)) |-> 0]]

\* the visualize effect (lines 111-117) with visualize and cancelVisualize
VisualizeEffect(w) ==
    IF w.pstate = "playing"
    THEN IF w.ctx = "none" THEN w ELSE [w EXCEPT !.anim = TRUE]
    ELSE [w EXCEPT !.anim = FALSE]

\* a scan that also takes a chunk in error, to request it again
LoaderTargetRetrying(cs, idx) ==
    LET S == {i \in 0..(Len(cs) - 1) :
                 i >= idx /\ cs[i + 1].status \in {"pending", "error"}}
    IN  IF S = {} THEN -1 ELSE Min(S)

\* a scan that gives up at a chunk in error
LoaderTargetBlocked(cs, idx) ==
    LET S == {i \in 0..(Len(cs) - 1) :
                 i >= idx /\ cs[i + 1].status \in {"pending", "error"}}
    IN  IF S = {} \/ cs[Min(S) + 1].status = "error" THEN -1 ELSE Min(S)

\* chunks.findIndex((c, i) => i >= currentChunkIdx && c.status === 'pending'),
\* counted from 0; -1 when there is none
LoaderTarget(cs, idx) ==
    LET S == {i \in 0..(Len(cs) - 1) : i >= idx /\ cs[i + 1].status = "pending"}
    IN  IF S = {} THEN -1 ELSE Min(S)

\* loadNextBuffer up to its first await (lines 121-131)
LoaderEffect(w) ==
    LET targetIdx == LoaderTarget(w.chunks, w.idx)
    IN  IF targetIdx = -1 THEN w
        ELSE [w EXCEPT !.nchunks = SetStatus(@, targetIdx, "loading"),
                       !.touched = TRUE,
                       !.reqs[targetIdx + 1] = @ + 1,
                       !.fetches = @ \cup {[target |-> targetIdx, cidx |-> w.idx,
                                            text |-> w.chunks[targetIdx + 1].text,
                                            session |-> w.session]}]

\* the source playCurrentChunk creates, with what its onended closure captured
NewSource(w) ==
    [id |-> 1 - w.serial, idx |-> w.idx, len |-> Len(w.chunks),
     nextBuf |-> (w.idx + 2 <= Len(w.chunks)
                  /\ w.chunks[w.idx + 2].buffer # NoBuffer),
     rate |-> w.speed, audio |-> w.chunks[w.idx + 1].buffer]

\* playCurrentChunk (lines 169-208)
PlayCurrentChunk(w) ==
    IF w.ctx = "none" THEN w
    ELSE IF w.ctx = "suspended" THEN [w EXCEPT !.ctx = "running"]
    ELSE IF w.idx + 1 > Len(w.chunks) \/ w.chunks[w.idx + 1].buffer = NoBuffer THEN w
    ELSE IF w.src # NoSource THEN w
    ELSE [w EXCEPT !.src = NewSource(w), !.last = w.idx, !.serial = 1 - @]

\* the playback effect (lines 155-160)
PlaybackEffect(w) ==
    IF w.pstate = "playing" /\ w.ready THEN PlayCurrentChunk(w) ELSE w

\* the speed effect (lines 163-167)
SpeedEffect(w) ==
    IF w.src # NoSource THEN [w EXCEPT !.src.rate = w.speed] ELSE w

\* which dependency lists differ between the last render and the next
Deps(w) ==
    [text   |-> w.text # w.ptext,
     vis    |-> w.npstate # w.pstate,
     loader |-> w.touched \/ w.nidx # w.idx,
     play   |-> w.npstate # w.pstate \/ w.nready # w.ready \/ w.nidx # w.idx,
     speed  |-> w.speed # w.pspeed,
     any    |-> \/ w.text # w.ptext \/ w.speed # w.pspeed \/ w.touched
                \/ w.nidx # w.idx \/ w.nready # w.ready
                \/ w.npstate # w.pstate \/ w.nerr # w.err]

\* the render: the queued updates become the values the closures see
Render(w) ==
    [w EXCEPT !.chunks = w.nchunks, !.idx = w.nidx, !.ready = w.nready,
              !.pstate = w.npstate, !.err = w.nerr, !.touched = FALSE,
              !.ptext = w.text, !.pspeed = w.speed]

\* the effects of one render, in source order; the text effect's cleanup
\* runs before its body
RunEffects(w, d) ==
    Then(Then(Then(Then(Then(w,
        LAMBDA a : IF d.text THEN TextEffect(CleanupAudio(a)) ELSE a),
        LAMBDA b : IF d.vis THEN VisualizeEffect(b) ELSE b),
        LAMBDA c : IF d.loader THEN LoaderEffect(c) ELSE c),
        LAMBDA e : IF d.play THEN PlaybackEffect(e) ELSE e),
        LAMBDA g : IF d.speed THEN SpeedEffect(g) ELSE g)

\* render and run effects until no update is queued
RECURSIVE Settle(_)
Settle(w) ==
    Then(w, LAMBDA v : IF ~Deps(v).any THEN v
                       ELSE Settle(RunEffects(Render(v), Deps(v))))

\* the first render of a new instance: every effect runs
FirstRender(w) ==
    Settle(Then(Then(Then(Then(Then(w,
        LAMBDA a : TextEffect(a)),
        LAMBDA b : VisualizeEffect(b)),
        LAMBDA c : LoaderEffect(c)),
        LAMBDA e : PlaybackEffect(e)),
        LAMBDA g : SpeedEffect(g)))

Commit(w) ==
    /\ chunks' = w.chunks
    /\ currentChunkIdx' = w.idx
    /\ isReadyToPlay' = w.ready
    /\ playbackState' = w.pstate
    /\ loadingError' = w.err
    /\ text' = w.text
    /\ speed' = w.speed
    /\ ctxState' = w.ctx
    /\ sourceRef' = w.src
    /\ animationId' = w.anim
    /\ fetches' = w.fetches
    /\ stale' = w.stale
    /\ orphans' = w.orphans
    /\ lastStarted' = w.last
    /\ sourceSerial' = w.serial
    /\ requests' = w.reqs
    /\ openContexts' = w.ctxs

\* an event handler ran and left w: the renders and effects that follow
Step(w) == \E r \in {Settle(w)} : Commit(r)

-----------------------------------------------------------------------------
(* Event handlers *)

\* loadNextBuffer after its awaits succeeded (lines 132-142); the decoded
\* buffer is written as the audio of the text that was synthesized
OnLoaded(w, f) ==
    IF w.ctx \in {"none", "closed"} THEN w
    ELSE [w EXCEPT !.nchunks = SetReady(@, f.target, <<f.text>>),
                   !.touched = TRUE,
                   !.nready = IF f.target = f.cidx THEN TRUE ELSE @]

\* loadNextBuffer's catch (lines 143-147): generateSpeech, decodeBase64 or
\* decodeAudioData threw
OnLoadFailed(w, f) ==
    [w EXCEPT !.nchunks = SetStatus(@, f.target, "error"),
              !.touched = TRUE,
              !.nerr = IF f.target = f.cidx THEN TRUE ELSE @]

\* a handler that advances past the next chunk
NextIdxSkipping(prev) == prev + 2

\* setCurrentChunkIdx(prev => prev + 1)
NextIdx(prev) == prev + 1

\* source.onended (lines 193-204) of a source whose closure is c
OnEnded(w, c) ==
    IF c.idx < c.len - 1
    THEN [w EXCEPT !.src = NoSource, !.nidx = NextIdx(@), !.nready = c.nextBuf]
    ELSE [w EXCEPT !.src = NoSource, !.npstate = "stopped", !.nidx = 0]

\* a source that is still playing when another source's handler clears the ref
Orphan(w) ==
    [w EXCEPT !.orphans = IF w.src # NoSource THEN @ \cup {w.src} ELSE @]

\* handlePause (lines 210-219)
HandlePause(w) ==
    IF w.ctx = "running"
    THEN [w EXCEPT !.ctx = "suspended", !.npstate = "paused"]
    ELSE w

\* a resume that drops the source and lets the playback effect start another
HandleResumeRestart(w) ==
    [w EXCEPT !.src = NoSource, !.ctx = "running", !.npstate = "playing"]

\* handleResume (lines 221-232)
HandleResume(w) ==
    IF w.ctx = "suspended"
    THEN [w EXCEPT !.ctx = "running", !.npstate = "playing"]
    ELSE [w EXCEPT !.npstate = "playing"]

\* the Retry button's onClick (line 290)
HandleRetry(w) == [w EXCEPT !.npstate = "playing"]

-----------------------------------------------------------------------------
(* Texts the notes hold *)

Rep(c, n) == [i \in 1..n |-> c]

Sentence(n) == Rep("a", n) \o <<".">>

\* one, two and three chunks
Text1 == Sentence(5)
Text2 == Sentence(153) \o <<" ">> \o Sentence(154)
Text3 == Sentence(150) \o <<" ">> \o Sentence(151) \o <<"\n">> \o Sentence(152)

SampleTexts == {Text1, Text2, Text3}

\* more texts of three chunks
Text3b == Sentence(120) \o Sentence(130) \o Sentence(140)
Text3c == Sentence(198) \o <<" ">> \o Sentence(10) \o <<" ">> \o Sentence(195)

ThreeChunkTexts == {Text3, Text3b, Text3c}

\* the texts the player is given where it may be given another one afterwards
ShortTexts == {Text1, Text2}

\* the texts the Segmenter is run on: up to MaxBlocks blocks, each a run of
\* letters, a terminator or white space, that handleSpeak lets through
Blocks == {Rep("a", 1), Rep("a", 99), Rep("a", 200), <<".">>, <<" ">>, <<"\n">>}

RECURSIVE Flatten(_)
Flatten(bs) == IF bs = <<>> THEN <<>> ELSE Head(bs) \o Flatten(Tail(bs))

BlockTexts ==
    {t \in UNION {{Flatten(bs) : bs \in [1..n -> Blocks]} : n \in 1..MaxBlocks} :
        Trim(t) # <<>>}

\* 450 characters with exactly two terminators, at positions p and q
Scenario(p, q) == [i \in 1..450 |-> IF i \in {p, q} THEN "." ELSE "a"]

ScenarioTexts ==
    {Scenario(p, q) : p \in (180 - Near)..(180 + Near),
                      q \in (360 - Near)..(360 + Near)}

SegmenterTexts == BlockTexts \cup ScenarioTexts

-----------------------------------------------------------------------------
(* Actions *)

Init ==
    /\ mounted = FALSE
    /\ text = <<>>
    /\ speed = InitialSpeed
    /\ chunks = <<>>
    /\ currentChunkIdx = 0
    /\ isReadyToPlay = FALSE
    /\ playbackState = "stopped"
    /\ loadingError = FALSE
    /\ ctxState = "none"
    /\ sourceRef = NoSource
    /\ animationId = FALSE
    /\ fetches = {}
    /\ stale = {}
    /\ orphans = {}
    /\ lastStarted = -1
    /\ textChanges = 0
    /\ sourceSerial = 0
    /\ requests = <<>>
    /\ openContexts = 0

\* App renders a TtsPlayer for text t: useState initial values, first render
MountWith(t) ==
    /\ mounted' = TRUE
    /\ textChanges' = 0
    /\ \E r \in {FirstRender([W EXCEPT !.text = t, !.ptext = t])} : Commit(r)

\* handleSpeak while no player is open (App.tsx 166-178)
Speak == ~mounted /\ \E t \in ShortTexts : MountWith(t)

SpeakSession == ~mounted /\ \E t \in SampleTexts : MountWith(t)

SpeakThree == ~mounted /\ \E t \in ThreeChunkTexts : MountWith(t)

SpeakAny == ~mounted /\ \E t \in SegmenterTexts : MountWith(t)

\* handleSpeak while the player is open, with another text
TextChange ==
    /\ mounted
    /\ textChanges < MaxTextChanges
    /\ \E t \in ShortTexts \ {text} :
          Step([W EXCEPT !.text = t, !.session = @ + 1])
    /\ textChanges' = textChanges + 1
    /\ UNCHANGED mounted

\* handleClose (lines 234-237): cleanupAudio, then App unmounts the player,
\* whose state and refs are gone; what is still outstanding calls setters of
\* an unmounted instance
Close ==
    /\ mounted
    /\ mounted' = FALSE
    /\ text' = <<>>
    /\ chunks' = <<>>
    /\ currentChunkIdx' = 0
    /\ isReadyToPlay' = FALSE
    /\ playbackState' = "stopped"
    /\ loadingError' = FALSE
    /\ ctxState' = "none"
    /\ sourceRef' = CleanupAudio(W).src
    /\ animationId' = CleanupAudio(W).anim
    /\ openContexts' = CleanupAudio(W).ctxs
    /\ sourceSerial' = 0
    /\ requests' = <<>>
    /\ fetches' = {}
    /\ stale' = {}
    /\ orphans' = {}
    /\ lastStarted' = -1
    /\ textChanges' = 0
    /\ UNCHANGED speed

FetchSuccess ==
    /\ mounted
    /\ \E f \in fetches :
          Step(OnLoaded([W EXCEPT !.fetches = @ \ {f}], f))
    /\ UNCHANGED <<mounted, textChanges>>

FetchFail ==
    /\ mounted
    /\ \E f \in fetches :
          Step(OnLoadFailed([W EXCEPT !.fetches = @ \ {f}], f))
    /\ UNCHANGED <<mounted, textChanges>>

\* the audio of the source the ref holds reaches its end
AudioEnded ==
    /\ mounted
    /\ sourceRef # NoSource
    /\ ctxState = "running"
    /\ Step(OnEnded(W, sourceRef))
    /\ UNCHANGED <<mounted, textChanges>>

\* the ended event of a source cleanupAudio stopped
StaleEnded ==
    /\ mounted
    /\ \E c \in stale :
          Step(OnEnded(Orphan([W EXCEPT !.stale = @ \ {c}]), c))
    /\ UNCHANGED <<mounted, textChanges>>

\* the audio of a source no ref holds reaches its end
OrphanEnded ==
    /\ mounted
    /\ ctxState = "running"
    /\ \E c \in orphans :
          Step(OnEnded(Orphan([W EXCEPT !.orphans = @ \ {c}]), c))
    /\ UNCHANGED <<mounted, textChanges>>

\* the round button while it shows pause (lines 294-297)
Pause ==
    /\ mounted
    /\ ~loadingError
    /\ Len(chunks) # 0
    /\ playbackState = "playing"
    /\ Step(HandlePause(W))
    /\ UNCHANGED <<mounted, textChanges>>

\* the round button while it shows play
Resume ==
    /\ mounted
    /\ ~loadingError
    /\ Len(chunks) # 0
    /\ playbackState # "playing"
    /\ Step(HandleResume(W))
    /\ UNCHANGED <<mounted, textChanges>>

\* the Retry button, rendered while loadingError (lines 289-292)
Retry ==
    /\ mounted
    /\ loadingError
    /\ Step(HandleRetry(W))
    /\ UNCHANGED <<mounted, textChanges>>

\* the speed slider's onChange (line 342)
SpeedChange ==
    /\ mounted
    /\ \E v \in Speeds \ {speed} :
          Step([W EXCEPT !.speed = v])
    /\ UNCHANGED <<mounted, textChanges>>

Next ==
    \/ Speak
    \/ TextChange
    \/ Close
    \/ FetchSuccess
    \/ FetchFail
    \/ AudioEnded
    \/ StaleEnded
    \/ OrphanEnded
    \/ Pause
    \/ Resume
    \/ Retry
    \/ SpeedChange

Spec == Init /\ [][Next]_vars

\* one playback session: the player is opened once, and neither closed nor
\* given another text
SessionNext ==
    \/ SpeakSession
    \/ FetchSuccess
    \/ FetchFail
    \/ AudioEnded
    \/ Pause
    \/ Resume
    \/ Retry
    \/ SpeedChange

SpecSession == Init /\ [][SessionNext]_vars

\* a three-chunk session in which every request succeeds and the user only
\* moves the speed slider; a response arrives, and the audio of a started
\* source on a running context ends
FairNext ==
    \/ SpeakThree
    \/ FetchSuccess
    \/ AudioEnded
    \/ SpeedChange

SpecFair ==
    /\ Init
    /\ [][FairNext]_vars
    /\ WF_vars(FetchSuccess)
    /\ WF_vars(AudioEnded)

\* texts that replace one another while the player is open, with no other
\* user action: every request succeeds; a response arrives, and the audio of
\* a started source ends
ReplaceNext ==
    \/ Speak
    \/ TextChange
    \/ FetchSuccess
    \/ AudioEnded

SpecReplace ==
    /\ Init
    /\ [][ReplaceNext]_vars
    /\ WF_vars(FetchSuccess)
    /\ WF_vars(AudioEnded)

\* the Segmenter alone: the player is opened on an arbitrary text
SegNext == SpeakAny

SpecSeg == Init /\ [][SegNext]_vars

-----------------------------------------------------------------------------
(* Claims *)

Status(i) == chunks[i + 1].status

Indices == 0..(Len(chunks) - 1)

Loading == {i \in Indices : Status(i) = "loading"}

\* C1: at most one chunk is Loading, and at most one synthesis request is
\* outstanding, in every state of a session
C1_PrefetchBound == Cardinality(Loading) <= 1 /\ Cardinality(fetches) <= 1

\* a step in which a source is started
Started ==
    /\ sourceRef' # NoSource
    /\ sourceRef = NoSource \/ sourceRef'.idx # sourceRef.idx

\* C2: in a session a source is started only for the current chunk, only
\* when no other source is active unless that one's audio ends in this very
\* step, and only for the chunk after the one started last (chunk 0 first and
\* again after the last); currentChunkIdx changes only when the audio of the
\* current chunk ends, by +1, or to 0 after the last chunk; playbackState
\* becomes stopped only when the audio of the last chunk ends
C2_Sequencing ==
    [][ /\ Started =>
            /\ sourceRef'.idx = currentChunkIdx'
            /\ sourceRef # NoSource => AudioEnded
            /\ sourceRef'.idx = IF lastStarted = Len(chunks') - 1 THEN 0
                                ELSE lastStarted + 1
        /\ (mounted /\ currentChunkIdx' # currentChunkIdx) =>
            /\ AudioEnded
            /\ sourceRef.idx = currentChunkIdx
            /\ currentChunkIdx' = IF currentChunkIdx < Len(chunks) - 1
                                  THEN currentChunkIdx + 1 ELSE 0
        /\ (mounted /\ playbackState # "stopped" /\ playbackState' = "stopped") =>
            /\ AudioEnded
            /\ sourceRef.idx = Len(chunks) - 1
      ]_vars

\* the three chunks of a text were played in order to the end
C2_Witness ==
    /\ mounted
    /\ Len(chunks) = 3
    /\ playbackState = "stopped"
    /\ lastStarted = 2
    /\ currentChunkIdx = 0

\* C3: in a three-chunk session without failures and without pause, close
\* or text change, once the player is open the three chunks are eventually
\* all played and playbackState becomes stopped
C3_Progress ==
    mounted ~> (playbackState = "stopped" /\ lastStarted = 2)

\* the chunk at currentChunkIdx is in error
CurrentInError ==
    /\ mounted
    /\ currentChunkIdx \in Indices
    /\ Status(currentChunkIdx) = "error"

\* C4: a retry while the current chunk is in error issues a synthesis
\* request for that chunk, whose status leaves error, and changes no other
\* chunk
C4_RetryRefetches ==
    [][ (CurrentInError /\ Retry) =>
            /\ chunks'[currentChunkIdx + 1].status # "error"
            /\ \E f \in fetches' \ fetches : f.target = currentChunkIdx
            /\ \A i \in Indices \ {currentChunkIdx} : chunks'[i + 1] = chunks[i + 1]
      ]_vars

\* C5: whenever the current chunk is in error, the flag that shows the retry
\* control is set
C5_RetryShown == CurrentInError => loadingError

C10_IndexInRange ==
    (mounted /\ Len(chunks) > 0) => currentChunkIdx \in Indices

\* the characters of t that are neither white space nor terminators
Content(t) == SelectSeq(t, LAMBDA c : ~IsSpace(c) /\ ~IsTerminator(c))

\* the chunk texts, in order
ChunkTexts == [i \in 1..Len(chunks) |-> chunks[i].text]

\* C7: the chunk texts, concatenated in order, hold the content of the
\* input text: each character that is neither white space nor a terminator,
\* once and in order
C7_Completeness ==
    mounted => Content(Flatten(ChunkTexts)) = Content(text)

\* C8: no chunk is longer than twice the chunk length limit
C8_LengthBound ==
    mounted => \A i \in Indices : Len(chunks[i + 1].text) <= 2 * CHUNK_SIZE_LIMIT

\* C8, amended: every chunk is shorter than the chunk length limit, or is
\* one sentence-like unit of the text, trimmed, whatever its length
C8_UnitOrShort ==
    mounted =>
        \A i \in Indices :
            \/ Len(chunks[i + 1].text) < CHUNK_SIZE_LIMIT
            \/ \E k \in 1..Len(Sentences(text)) :
                   chunks[i + 1].text = Trim(Sentences(text)[k])

\* a chunk of one unit longer than twice the limit
C8_Witness ==
    /\ mounted
    /\ \E i \in Indices : Len(chunks[i + 1].text) > 2 * CHUNK_SIZE_LIMIT

\* C9: a text of 450 characters with two terminators, near 180 and near
\* 360, gives three chunks, the first two of at most 200 characters
C9_Scenario ==
    (mounted /\ text \in ScenarioTexts) =>
        /\ Len(chunks) = 3
        /\ \A i \in 1..2 : Len(chunks[i].text) <= CHUNK_SIZE_LIMIT

\* the sources that were started and have neither ended nor been stopped
ActiveSources == ({sourceRef} \ {NoSource}) \cup orphans

\* C11: at most one source is started and not yet ended or stopped
C11_SingleSource == Cardinality(ActiveSources) <= 1

\* C12: a pause while a source plays suspends the context and sets
\* playbackState to paused, with the same source in the ref, no source
\* created and currentChunkIdx unchanged; a resume from paused with a source
\* in the ref sets playbackState to playing on a running context, with the
\* same source in the ref and no source created
C12_PauseResume ==
    [][ /\ (Pause /\ sourceRef # NoSource) =>
            /\ ctxState' = "suspended"
            /\ playbackState' = "paused"
            /\ sourceRef' = sourceRef
            /\ sourceSerial' = sourceSerial
            /\ currentChunkIdx' = currentChunkIdx
        /\ (Resume /\ playbackState = "paused" /\ sourceRef # NoSource) =>
            /\ ctxState' = "running"
            /\ playbackState' = "playing"
            /\ sourceRef' = sourceRef
            /\ sourceSerial' = sourceSerial
            /\ currentChunkIdx' = currentChunkIdx
      ]_vars

\* paused in the middle of a chunk
C12_Witness ==
    /\ mounted
    /\ playbackState = "paused"
    /\ ctxState = "suspended"
    /\ sourceRef # NoSource
    /\ sourceRef.idx = currentChunkIdx

\* the requests that complete in this step and were made for a chunk of a
\* previous text
StaleCompleted == {f \in fetches \ fetches' : f.session < textChanges}

\* C13: the completion of a request made for a chunk of a previous text
\* changes no chunk of the sequence, nor isReadyToPlay, nor loadingError
C13_StaleCompletion ==
    [][ (mounted /\ mounted' /\ StaleCompleted # {}) =>
            /\ chunks' = chunks
            /\ isReadyToPlay' = isReadyToPlay
            /\ loadingError' = loadingError
      ]_vars

\* C14: generateSpeech has been called at most once for each chunk of the
\* current sequence, and a further run of the loader effect, whatever
\* dependency caused it, finds no chunk to request
C14_NoRedundantFetch ==
    mounted =>
        /\ Len(requests) = Len(chunks)
        /\ \A i \in 1..Len(requests) : requests[i] <= 1
        /\ LoaderTarget(chunks, currentChunkIdx) = -1

\* both chunks requested, the second failed, and playback has moved on to it
C14_Witness ==
    /\ mounted
    /\ requests = <<1, 1>>
    /\ currentChunkIdx = 1
    /\ Status(1) = "error"
    /\ fetches = {}

\* C15: after the player is closed there is no source in the ref, no open
\* audio context and no frame callback scheduled; a text change stops the
\* source the ref held and clears the ref, leaves no other started source,
\* closes the context of the session it ends, so that the new session's
\* context is the only open one, and cancels the frame callback that was
\* scheduled
C15_Teardown ==
    /\ [](~mounted => (sourceRef = NoSource /\ openContexts = 0 /\ ~animationId))
    /\ [](openContexts <= 1)
    /\ [][ TextChange =>
            /\ sourceRef' = NoSource
            /\ sourceRef # NoSource => sourceRef \in stale'
            /\ orphans' = {}
            /\ openContexts' = 1
            /\ animationId => ~animationId'
         ]_vars

\* a text change has stopped a source
C15_Witness ==
    /\ mounted
    /\ textChanges > 0
    /\ stale # {}
    /\ sourceRef = NoSource
    /\ ctxState = "running"
    /\ openContexts = 1

\* C16: when the request for the chunk at currentChunkIdx completes,
\* isReadyToPlay is set if it succeeded and loadingError is set if it failed,
\* whichever index was current when the request was made
C16_LoaderSignal ==
    [][ \A f \in fetches \ fetches' :
            (mounted' /\ f.target = currentChunkIdx) =>
                /\ chunks'[f.target + 1].status = "ready" => isReadyToPlay'
                /\ chunks'[f.target + 1].status = "error" => loadingError'
      ]_vars

\* C17: when the audio of a chunk that is not the last ends, currentChunkIdx
\* grows by one and isReadyToPlay becomes whether the chunk that is now
\* current has a buffer
C17_Advance ==
    [][ (AudioEnded /\ currentChunkIdx < Len(chunks) - 1) =>
            /\ currentChunkIdx' = currentChunkIdx + 1
            /\ isReadyToPlay' = (chunks[currentChunkIdx + 2].buffer # NoBuffer)
      ]_vars

\* C18: a change of the speed gives every started source that has not
\* ended or been stopped the new playback rate and changes nothing else of
\* it, keeps the source in the ref, creates no source, and leaves
\* currentChunkIdx, playbackState, isReadyToPlay and the chunks unchanged;
\* a source that is created has the speed of that moment as its rate
C18_SpeedChange ==
    [][ /\ SpeedChange =>
            /\ ActiveSources' = {[s EXCEPT !.rate = speed'] : s \in ActiveSources}
            /\ sourceRef'.id = sourceRef.id
            /\ sourceSerial' = sourceSerial
            /\ currentChunkIdx' = currentChunkIdx
            /\ playbackState' = playbackState
            /\ isReadyToPlay' = isReadyToPlay
            /\ chunks' = chunks
        /\ (mounted' /\ sourceSerial' # sourceSerial) =>
            /\ sourceRef' # NoSource
            /\ sourceRef'.rate = speed'
      ]_vars

\* the moves of a chunk's status
Lifecycle == {<<"pending", "loading">>, <<"loading", "ready">>, <<"loading", "error">>}

\* C19: while the chunk sequence is the same, a chunk's text does not
\* change and its status stays or makes one move of the lifecycle
C19_Lifecycle ==
    [][ (mounted /\ mounted' /\ textChanges' = textChanges) =>
            /\ Len(chunks') = Len(chunks)
            /\ \A i \in Indices :
                /\ chunks'[i + 1].text = chunks[i + 1].text
                /\ \/ chunks'[i + 1].status = Status(i)
                   \/ <<Status(i), chunks'[i + 1].status>> \in Lifecycle
      ]_vars

\* C20: a frame callback is scheduled exactly while playbackState is
\* playing
C20_Visualizer ==
    mounted => (animationId <=> playbackState = "playing")

\* C21: every chunk of the sequence has a text that is not empty
C21_NoEmptyChunk ==
    mounted => \A i \in Indices : chunks[i + 1].text # <<>>

\* chunk 0 of a text that replaced another is ready, with its own audio
ReplacedAndReady ==
    /\ mounted
    /\ textChanges > 0
    /\ Len(chunks) > 0
    /\ chunks[1].status = "ready"
    /\ chunks[1].buffer = <<chunks[1].text>>

\* C22: a text change sets currentChunkIdx to 0 and playbackState to
\* playing, and once chunk 0 of the new text is ready a source playing its
\* audio is eventually started
C22_AutoStart ==
    /\ [][TextChange => (currentChunkIdx' = 0 /\ playbackState' = "playing")]_vars
    /\ ReplacedAndReady ~>
           (sourceRef # NoSource /\ sourceRef.idx = 0
            /\ sourceRef.audio = <<chunks[1].text>>)

\* C23: the ended event of a source that cleanupAudio stopped changes
\* neither currentChunkIdx, playbackState nor isReadyToPlay, and leaves the
\* source the ref holds in the ref
C23_StaleCallback ==
    [][ StaleEnded =>
            /\ currentChunkIdx' = currentChunkIdx
            /\ playbackState' = playbackState
            /\ isReadyToPlay' = isReadyToPlay
            /\ sourceRef' = sourceRef
      ]_vars

=============================================================================
